---- MODULE Spec2Model ----
(***************************************************************************)
(* Mapillary street view simulator: the route pipeline of App              *)
(* (handleFormSubmit / handleCloseSlideshow), the image services it calls  *)
(* (getMapillaryImage, getMapillaryImagesBatch), the route sampler        *)
(* (generateEvenlySpacedPoints) and the polyline decoder (decode). The     *)
(* sampler, the candidate loop of getMapillaryImage and the decoder are    *)
(* also run on their own, step by step, under SamplerSpec (and             *)
(* NumericSpacingSpec), SelectorSpec and DecoderSpec; so are the           *)
(* ImageSlideshow component (SlideshowSpec) and the round trip through the *)
(* geodesy functions along the equator (GeodesySpec).                      *)
(*                                                                         *)
(* JavaScript runs one task at a time: a user event or the resolution of   *)
(* a network call is a task, and the continuation of an async function     *)
(* that the task resumes runs to its next await before any other task.     *)
(* The variable active holds the run whose continuation is executing       *)
(* (0: the event loop is idle and may take the next task).                 *)
(*                                                                         *)
(* Geometry is modelled on a local tangent plane in whole metres: a        *)
(* coordinate is <<lat, lon>> in metres north / east of a reference point, *)
(* and distances are metres instead of kilometres.                         *)
(***************************************************************************)
EXTENDS Integers, Sequences, FiniteSets, TLC

\* ------------------------------------------------------------- bounds
\* Number of route submissions (invocations of handleFormSubmit).
MaxRuns == 2
\* Number of waypoints the sampled route of a submission has.
MaxPoints == 3
\* batchSize of handleFormSubmit and getMapillaryImagesBatch. The source sets
\* 10; the model scales it down so that a route of MaxPoints waypoints still
\* needs more than one batch.
BatchSize == 2
\* Number of points of a route the sampler is called with on its own.
MaxRoutePoints == 4
\* Largest spacing (metres) the sampler is called with on its own.
MaxSpacing == 3
\* Number of records in an answer of the provider (the source asks for 50).
MaxCandidates == 3
\* Length of a raw string decode is called with.
MaxStrLen == 4
\* Number of points of an encoded sequence decode is called with.
MaxEncodedPoints == 2

\* ---------------------------------------------------- program constants
\* minImageDistanceKm = 0.03, in metres.
MinImageDistanceM == 30
\* generateEvenlySpacedPoints(routeCoords, 50): metres between waypoints.
TargetSpacingM == 50

Runs == 1..MaxRuns

\* ------------------------------------------------------------ geodesy
Abs(x) == IF x >= 0 THEN x ELSE -x

\* Largest k with k*k <= x.
ISqrt(x) == CHOOSE k \in 0..x : k * k <= x /\ (k + 1) * (k + 1) > x

\* distance(origin, destination): great-circle distance, here the planar
\* distance in whole metres (rounded down) between two <<lat, lon>> points.
distance(origin, destination) ==
    LET dlat == destination[1] - origin[1]
        dlon == destination[2] - origin[2]
    IN  ISqrt(dlat * dlat + dlon * dlon)

\* calculateInitialCompassBearing(pointA, pointB): atan2(x, y) in degrees,
\* normalised to [0, 360). Exact for the eight compass directions, which are
\* the only ones the routes of the model use; atan2(0, 0) = 0.
calculateInitialCompassBearing(pointA, pointB) ==
    LET y == pointB[1] - pointA[1]
        x == pointB[2] - pointA[2]
    IN  CASE x = 0 /\ y >= 0 -> 0
          [] x > 0 /\ y > 0  -> 45
          [] x > 0 /\ y = 0  -> 90
          [] x > 0 /\ y < 0  -> 135
          [] x = 0 /\ y < 0  -> 180
          [] x < 0 /\ y < 0  -> 225
          [] x < 0 /\ y = 0  -> 270
          [] x < 0 /\ y > 0  -> 315

\* calculateDestinationPoint(point, bearing, distanceKm) for the four
\* axis directions (the routes of the model run along the axes).
calculateDestinationPoint(point, bearing, dist) ==
    CASE bearing = 0   -> <<point[1] + dist, point[2]>>
      [] bearing = 90  -> <<point[1], point[2] + dist>>
      [] bearing = 180 -> <<point[1] - dist, point[2]>>
      [] bearing = 270 -> <<point[1], point[2] - dist>>
      [] OTHER         -> point

\* ------------------------------------------------------- route sampler
\* segmentLengths of generateEvenlySpacedPoints.
SegmentLengths(routeCoords) ==
    [k \in 1..(Len(routeCoords) - 1) |-> distance(routeCoords[k], routeCoords[k + 1])]

RECURSIVE SumSeq(_)
SumSeq(s) == IF s = <<>> THEN 0 ELSE s[1] + SumSeq(Tail(s))

\* The while loop of generateEvenlySpacedPoints. seg is currentSegmentIndex + 1.
RECURSIVE SamplerLoop(_, _, _, _, _, _, _)
SamplerLoop(routeCoords, spacing, nextPointDistance, accumulatedDistance, seg, distanceIntoSegment, result) ==
    LET segmentLengths == SegmentLengths(routeCoords)
        totalDistance  == SumSeq(segmentLengths)
    IN  IF ~(nextPointDistance < totalDistance /\ seg - 1 < Len(routeCoords) - 1)
        THEN result
        ELSE
          LET segmentLength      == segmentLengths[seg]
              remainingInSegment == segmentLength - distanceIntoSegment
          IN  IF nextPointDistance - accumulatedDistance <= remainingInSegment
              THEN
                LET distanceAlongSegment ==
                        distanceIntoSegment + (nextPointDistance - accumulatedDistance)
                    bearing == calculateInitialCompassBearing(routeCoords[seg],
                                                              routeCoords[seg + 1])
                    interpolatedCoord ==
                        calculateDestinationPoint(routeCoords[seg], bearing,
                                                  distanceAlongSegment)
                IN  SamplerLoop(routeCoords, spacing, nextPointDistance + spacing,
                                accumulatedDistance, seg, distanceIntoSegment,
                                Append(result, [coord |-> interpolatedCoord,
                                                bearing |-> bearing]))
              ELSE SamplerLoop(routeCoords, spacing, nextPointDistance,
                               accumulatedDistance + remainingInSegment,
                               seg + 1, 0, result)

generateEvenlySpacedPoints(routeCoords, targetSpacingMeters) ==
    IF Len(routeCoords) < 2
    THEN <<>>
    ELSE SamplerLoop(routeCoords, targetSpacingMeters, targetSpacingMeters, 0, 1, 0,
                     << [coord   |-> routeCoords[1],
                         bearing |-> calculateInitialCompassBearing(routeCoords[1],
                                                                    routeCoords[2])] >>)

\* ---------------------------------------------------- external services
\* parseFloat of a part that is no number.
NaN == 100000

\* A form input, split at its commas and each part read by parseFloat:
\* "San Diego" is <<NaN>>, "38,-120" is <<38, -120>>, "200,300" is <<200, 300>>.
FormInputs == { <<NaN>>, <<38, -120>>, <<120, 38>>, <<200, 300>> }

\* isCoordinates(input)
isCoordinates(input) ==
    IF Len(input) # 2 THEN FALSE
    ELSE LET first  == input[1]
             second == input[2]
         IN  IF first = NaN \/ second = NaN THEN FALSE
             ELSE LET isLatLon == first >= -90 /\ first <= 90 /\ second >= -180 /\ second <= 180
                      isLonLat == second >= -90 /\ second <= 90 /\ first >= -180 /\ first <= 180
                  IN  isLatLon \/ isLonLat

\* parseCoordinateInput(input): threw, or the value returned (<<lon, lat>> for
\* a coordinate pair, the input itself otherwise).
parseCoordinateInput(input) ==
    IF Len(input) = 2 /\ input[1] # NaN /\ input[2] # NaN
    THEN LET lat == input[1]
             lon == input[2]
         IN  IF lat >= -90 /\ lat <= 90 /\ lon >= -180 /\ lon <= 180
             THEN [threw |-> FALSE, value |-> <<lon, lat>>]
             ELSE [threw |-> TRUE, value |-> <<>>]
    ELSE [threw |-> FALSE, value |-> input]

\* What the geocoder answers: a match, a non-OK status, or an empty result list.
GeocodeResponses == { "ok", "httpError", "noMatch" }

\* geocodeAddress(address) throws unless the response is OK and has a match.
geocodeAddressThrows(response) == response # "ok"

\* The sampled length of the one non-degenerate route of the model: it yields
\* MaxPoints waypoints (at 0, 50, ... metres), the last 20 m before its end.
LongRoute == << <<0, 0>>, <<TargetSpacingM * (MaxPoints - 1) + 20, 0>> >>

\* What the router answers, with the polyline already decoded: a non-OK
\* status, an OSRM error code, or code Ok with a route (no route: <<>>).
RouteResponses ==
    { [ok |-> FALSE, code |-> "Ok", route |-> <<>>],
      [ok |-> TRUE, code |-> "NoRoute", route |-> <<>>] }
    \cup { [ok |-> TRUE, code |-> "Ok", route |-> rt] :
             rt \in { <<>>, << <<0, 0>> >>, LongRoute } }

\* getRouteCoordinates(origin, destination): threw, or the route returned.
getRouteCoordinates(response) ==
    IF ~response.ok THEN [threw |-> TRUE, route |-> <<>>]
    ELSE IF response.code # "Ok" THEN [threw |-> TRUE, route |-> <<>>]
    ELSE [threw |-> FALSE, route |-> response.route]

\* MapillaryImage | null. geometry is <<lon, lat>>, or <<>> when the provider
\* record has none.
Null == [id |-> 0, thumbUrl |-> "", geometry |-> <<>>]

\* Records the provider answers with. Image 2 is 20 m from image 1. Image1Moved
\* is image 1 reported at another position (the provider recomputes positions),
\* 47 m from the first and exactly 30 m from image 2. Image 4 has no geometry.
Image1      == [id |-> 1, thumbUrl |-> "u1", geometry |-> <<0, 0>>]
Image2      == [id |-> 2, thumbUrl |-> "u2", geometry |-> <<0, 20>>]
Image1Moved == [id |-> 1, thumbUrl |-> "u1", geometry |-> <<18, 44>>]
Image4      == [id |-> 4, thumbUrl |-> "u4", geometry |-> <<>>]

\* The data sets the provider may hold during a behaviour: two images too
\* close to each other, one identifier at two distant positions, two distant
\* images, and an image without geometry.
ProviderWorlds ==
    { {Image1, Image2}, {Image1, Image1Moved}, {Image2, Image1Moved}, {Image1, Image4} }

\* What one image lookup meets: a transport error (fetch rejects), a non-OK
\* status, a body that is no JSON, or an OK response whose best candidate is
\* best (Null: no candidate, or none survives the filters).
LookupFailures == { "transportError", "httpError", "badBody" }

LookupResponses(providerImages) ==
    { [status |-> f, best |-> Null] : f \in LookupFailures }
    \cup { [status |-> "ok", best |-> b] : b \in providerImages \cup {Null} }

\* getMapillaryImage(coord, heading): every failure is caught and yields null.
getMapillaryImage(response) ==
    IF response.status # "ok" THEN Null ELSE response.best

\* ----------------------------------------------------------------- state
VARIABLES
    provider,           \* the images the imagery provider holds
    \* App (React state and the ref)
    images,             \* useState images: thumb URLs shown by the slideshow
    coordinates,        \* useState coordinates
    isLoading,          \* loadingState.isLoading
    showSlideshow,      \* useState showSlideshow
    cancelDownloadRef,  \* cancelDownloadRef.current
    \* the event loop
    active,             \* the run whose continuation is executing, or 0
    \* one invocation of handleFormSubmit per run
    pc,                 \* where the invocation stands
    formData,           \* <<origin, destination>> until the route is requested
    pointsToFetch,      \* the waypoints: <<[coord, bearing], ...>>
    i,                  \* the loop variable of the batch loop
    fetchedImages, fetchedCoordinates, usedImageIds, usedImageLocations,
    batchResults,       \* what getMapillaryImagesBatch returned
    \* the invocation of getMapillaryImagesBatch a run awaits
    gbPoints,           \* points
    gbI,                \* its loop variable i
    gbResults,          \* results
    pending,            \* positions of the current batch still in flight
    resolved,           \* <<[idx, failed, value], ...>> in order of resolution
    \* history
    alertMsg,           \* the message of the alert a run raised
    accepted,           \* per accepted image: [wp, id]
    batchesStarted,     \* batches of lookups a run has issued
    pauses,             \* 100 ms delays a run has waited between batches
    cancelRequested,    \* the slideshow was closed while the run was under way
    \* a function of the core called on its own: its frame (arguments, locals,
    \* position), or NotCalled
    sampler,            \* generateEvenlySpacedPoints
    selector,           \* the candidate loop of getMapillaryImage
    decoder,            \* decode
    slideshow,          \* the ImageSlideshow component (NotCalled: not mounted)
    geodesy             \* the round trip through the geodesy functions

appVars  == <<images, coordinates, isLoading, showSlideshow, cancelDownloadRef>>
accVars  == <<fetchedImages, fetchedCoordinates, usedImageIds, usedImageLocations, accepted>>
gbVars   == <<gbPoints, gbI, gbResults, pending, resolved>>
histVars == <<alertMsg, batchesStarted, pauses, cancelRequested>>
unitVars == <<sampler, selector, decoder, slideshow, geodesy>>
vars == <<provider, appVars, active, pc, formData, pointsToFetch, i, accVars, batchResults,
          gbVars, histVars, unitVars>>

NotCalled == [pc |-> "notCalled"]

NoForm == << <<>>, <<>> >>

Terminal == { "complete", "cancelled", "failed" }

\* The App after its first render.
AppInit ==
    /\ provider \in ProviderWorlds
    /\ images = <<>>
    /\ coordinates = <<>>
    /\ isLoading = FALSE
    /\ showSlideshow = FALSE
    /\ cancelDownloadRef = FALSE
    /\ active = 0
    /\ pc = [r \in Runs |-> "idle"]
    /\ formData = [r \in Runs |-> NoForm]
    /\ pointsToFetch = [r \in Runs |-> <<>>]
    /\ i = [r \in Runs |-> 0]
    /\ fetchedImages = [r \in Runs |-> <<>>]
    /\ fetchedCoordinates = [r \in Runs |-> <<>>]
    /\ usedImageIds = [r \in Runs |-> {}]
    /\ usedImageLocations = [r \in Runs |-> <<>>]
    /\ batchResults = [r \in Runs |-> <<>>]
    /\ gbPoints = [r \in Runs |-> <<>>]
    /\ gbI = [r \in Runs |-> 0]
    /\ gbResults = [r \in Runs |-> <<>>]
    /\ pending = [r \in Runs |-> {}]
    /\ resolved = [r \in Runs |-> <<>>]
    /\ alertMsg = [r \in Runs |-> ""]
    /\ accepted = [r \in Runs |-> <<>>]
    /\ batchesStarted = [r \in Runs |-> 0]
    /\ pauses = [r \in Runs |-> 0]
    /\ cancelRequested = [r \in Runs |-> FALSE]

Init ==
    /\ AppInit
    /\ sampler = NotCalled
    /\ selector = NotCalled
    /\ decoder = NotCalled
    /\ slideshow = NotCalled
    /\ geodesy = NotCalled

\* ------------------------------------------------------- handleFormSubmit
\* Mutant of Catch: the loading state is not reset.
CatchKeepsLoading(r, msg) ==
    /\ alertMsg' = [alertMsg EXCEPT ![r] = msg]
    /\ isLoading' = isLoading
    /\ pc' = [pc EXCEPT ![r] = "failed"]
    /\ formData' = [formData EXCEPT ![r] = NoForm]
    /\ active' = 0

\* The catch block: alert, loading reset.
Catch(r, msg) ==
    /\ alertMsg' = [alertMsg EXCEPT ![r] = msg]
    /\ isLoading' = FALSE
    /\ pc' = [pc EXCEPT ![r] = "failed"]
    /\ formData' = [formData EXCEPT ![r] = NoForm]
    /\ active' = 0

\* The user submits the form (it is rendered while the slideshow is hidden and
\* enabled while nothing loads): the resets, then the origin up to its await.
Submit(r, data) ==
    /\ active = 0
    /\ ~showSlideshow /\ ~isLoading
    /\ pc[r] = "idle"
    /\ \A q \in Runs : q < r => pc[q] # "idle"
    /\ images' = <<>>
    /\ coordinates' = <<>>
    /\ showSlideshow' = FALSE
    /\ cancelDownloadRef' = FALSE
    /\ IF isCoordinates(data[1])
       THEN IF parseCoordinateInput(data[1]).threw
            THEN Catch(r, "Invalid coordinates")
            ELSE /\ isLoading' = TRUE
                 /\ pc' = [pc EXCEPT ![r] = "destination"]
                 /\ formData' = [formData EXCEPT ![r] = data]
                 /\ active' = r
                 /\ alertMsg' = alertMsg
       ELSE /\ isLoading' = TRUE
            /\ pc' = [pc EXCEPT ![r] = "awaitGeocodeOrigin"]
            /\ formData' = [formData EXCEPT ![r] = data]
            /\ active' = 0
            /\ alertMsg' = alertMsg
    /\ UNCHANGED <<provider, unitVars, pointsToFetch, i, accVars, batchResults, gbVars,
                   batchesStarted, pauses, cancelRequested>>

\* geocodeAddress(formData.origin) settles.
GeocodeOriginReturns(r, response) ==
    /\ active = 0
    /\ pc[r] = "awaitGeocodeOrigin"
    /\ IF geocodeAddressThrows(response)
       THEN Catch(r, "Geocoding failed")
       ELSE /\ pc' = [pc EXCEPT ![r] = "destination"]
            /\ active' = r
            /\ UNCHANGED <<isLoading, formData, alertMsg>>
    /\ UNCHANGED <<provider, unitVars, images, coordinates, showSlideshow, cancelDownloadRef,
                   pointsToFetch, i, accVars, batchResults, gbVars,
                   batchesStarted, pauses, cancelRequested>>

\* await getRouteCoordinates(originCoords, destCoords) is reached.
RequestRoute(r) ==
    /\ isLoading' = TRUE
    /\ pc' = [pc EXCEPT ![r] = "awaitRoute"]
    /\ formData' = [formData EXCEPT ![r] = NoForm]
    /\ active' = 0
    /\ alertMsg' = alertMsg

\* The destination, up to the next await.
Destination(r) ==
    /\ active = r
    /\ pc[r] = "destination"
    /\ IF isCoordinates(formData[r][2])
       THEN IF parseCoordinateInput(formData[r][2]).threw
            THEN Catch(r, "Invalid coordinates")
            ELSE RequestRoute(r)
       ELSE /\ isLoading' = TRUE
            /\ pc' = [pc EXCEPT ![r] = "awaitGeocodeDestination"]
            /\ active' = 0
            /\ UNCHANGED <<formData, alertMsg>>
    /\ UNCHANGED <<provider, unitVars, images, coordinates, showSlideshow, cancelDownloadRef,
                   pointsToFetch, i, accVars, batchResults, gbVars,
                   batchesStarted, pauses, cancelRequested>>

\* geocodeAddress(formData.destination) settles.
GeocodeDestinationReturns(r, response) ==
    /\ active = 0
    /\ pc[r] = "awaitGeocodeDestination"
    /\ IF geocodeAddressThrows(response)
       THEN Catch(r, "Geocoding failed")
       ELSE RequestRoute(r)
    /\ UNCHANGED <<provider, unitVars, images, coordinates, showSlideshow, cancelDownloadRef,
                   pointsToFetch, i, accVars, batchResults, gbVars,
                   batchesStarted, pauses, cancelRequested>>

\* getRouteCoordinates settles: a failure, no route, or the waypoints and the
\* slideshow shown.
RouteReturns(r, response) ==
    /\ active = 0
    /\ pc[r] = "awaitRoute"
    /\ LET got == getRouteCoordinates(response)
       IN  IF got.threw
           THEN /\ Catch(r, "Route request failed")
                /\ UNCHANGED <<showSlideshow, pointsToFetch>>
           ELSE IF Len(got.route) = 0
           THEN /\ Catch(r, "No route found")
                /\ UNCHANGED <<showSlideshow, pointsToFetch>>
           ELSE /\ pointsToFetch' = [pointsToFetch EXCEPT ![r] =
                        generateEvenlySpacedPoints(got.route, TargetSpacingM)]
                /\ showSlideshow' = TRUE
                /\ isLoading' = TRUE
                /\ pc' = [pc EXCEPT ![r] = "loop"]
                /\ active' = r
                /\ UNCHANGED <<formData, alertMsg>>
    /\ UNCHANGED <<provider, unitVars, images, coordinates, cancelDownloadRef, i, accVars,
                   batchResults, gbVars, batchesStarted, pauses, cancelRequested>>

\* ------------------------------------------------ getMapillaryImagesBatch
Min(a, b) == IF a <= b THEN a ELSE b

Range(s) == { s[k] : k \in DOMAIN s }

\* points.slice(from, to), from and to counted from 0 as in the source.
Slice(points, from, to) == SubSeq(points, from + 1, Min(to, Len(points)))

\* The waypoint numbers (from 1, over pointsToFetch) of the lookups that the
\* batch at gbI of the invocation of run r holds.
BatchWaypoints(r) ==
    { i[r] + gbI[r] + k : k \in 1..Len(Slice(gbPoints[r], gbI[r], gbI[r] + BatchSize)) }

\* Mutant of PromiseAllSettled: Promise.race in place of Promise.all.
PromiseRaceSettled(wps, res) ==
    \E w \in wps : \E e \in Range(res) : e.idx = w

\* await Promise.all(batchPromises) resumes once every promise has resolved.
PromiseAllSettled(wps, res) ==
    \A w \in wps : \E e \in Range(res) : e.idx = w

\* Mutant of PromiseAllValues: the values in the order they resolved in.
PromiseValuesAsResolved(wps, res) ==
    [k \in 1..Len(res) |->
        [wp |-> res[k].idx, image |-> res[k].value, failed |-> res[k].failed]]

\* The value of Promise.all: the values in the order of the promises, whatever
\* the order they resolved in. Each value keeps the number of the waypoint it
\* was looked up for (wp) and whether its lookup failed, which the program
\* does not hold.
PromiseAllValues(wps, res) ==
    LET first == CHOOSE w \in wps : \A v \in wps : w <= v
    IN  [k \in 1..Cardinality(wps) |->
            LET e == CHOOSE e \in Range(res) : e.idx = first + k - 1
            IN  [wp |-> e.idx, image |-> e.value, failed |-> e.failed]]

\* A batch of lookups is issued: batch.map(point => getMapillaryImage(...)).
IssueBatch(r, points, from) ==
    /\ gbPoints' = [gbPoints EXCEPT ![r] = points]
    /\ gbI' = [gbI EXCEPT ![r] = from]
    /\ pending' = [pending EXCEPT ![r] =
            pending[r] \cup { i[r] + from + k :
                              k \in 1..Len(Slice(points, from, from + BatchSize)) }]
    /\ resolved' = [resolved EXCEPT ![r] = <<>>]
    /\ batchesStarted' = [batchesStarted EXCEPT ![r] = @ + 1]
    /\ pc' = [pc EXCEPT ![r] = "awaitBatch"]
    /\ active' = 0

\* The cancellation check of the batch loop.
CancelChecked(flag) == flag

\* An iteration of the batch loop starts: not cancelled, the batch is sliced
\* and getMapillaryImagesBatch(batch, batchSize) called, which issues its
\* first batch of lookups and awaits them.
StartBatch(r) ==
    /\ active = r
    /\ pc[r] = "loop"
    /\ i[r] < Len(pointsToFetch[r])
    /\ ~CancelChecked(cancelDownloadRef)
    /\ IssueBatch(r, Slice(pointsToFetch[r], i[r], i[r] + BatchSize), 0)
    /\ gbResults' = [gbResults EXCEPT ![r] = <<>>]
    /\ UNCHANGED <<provider, unitVars, appVars, formData, pointsToFetch, i, accVars, batchResults,
                   alertMsg, pauses, cancelRequested>>

\* The loop meets the cancellation flag set: break, then 'Complete!'.
CancelBreak(r) ==
    /\ active = r
    /\ pc[r] = "loop"
    /\ i[r] < Len(pointsToFetch[r])
    /\ CancelChecked(cancelDownloadRef)
    /\ isLoading' = FALSE
    /\ pc' = [pc EXCEPT ![r] = "cancelled"]
    /\ active' = 0
    /\ UNCHANGED <<provider, unitVars, images, coordinates, showSlideshow, cancelDownloadRef, formData,
                   pointsToFetch, i, accVars, batchResults, gbVars, histVars>>

\* The loop ends after the last batch: 'Complete!'.
Finish(r) ==
    /\ active = r
    /\ pc[r] = "loop"
    /\ ~(i[r] < Len(pointsToFetch[r]))
    /\ isLoading' = FALSE
    /\ pc' = [pc EXCEPT ![r] = "complete"]
    /\ active' = 0
    /\ UNCHANGED <<provider, unitVars, images, coordinates, showSlideshow, cancelDownloadRef, formData,
                   pointsToFetch, i, accVars, batchResults, gbVars, histVars>>

\* One lookup in flight settles. When it is the last of its batch, Promise.all
\* resolves and the invocation of getMapillaryImagesBatch resumes (no promise
\* of getMapillaryImage rejects).
LookupResolves(r, w, response) ==
    /\ active = 0
    /\ w \in pending[r]
    /\ pending' = [pending EXCEPT ![r] = @ \ {w}]
    /\ LET value == getMapillaryImage(response)
           res   == IF w \in BatchWaypoints(r)
                    THEN Append(resolved[r],
                                [idx |-> w, failed |-> response.status # "ok", value |-> value])
                    ELSE resolved[r]
       IN  /\ resolved' = [resolved EXCEPT ![r] = res]
           /\ IF pc[r] = "awaitBatch" /\ PromiseAllSettled(BatchWaypoints(r), res)
              THEN /\ pc' = [pc EXCEPT ![r] = "collect"]
                   /\ active' = r
              ELSE UNCHANGED <<pc, active>>
    /\ UNCHANGED <<provider, unitVars, appVars, formData, pointsToFetch, i, accVars, batchResults,
                   gbPoints, gbI, gbResults, histVars>>

\* getMapillaryImagesBatch after its await: results.push(...batchResults), then
\* the delay when points remain, else the return to its caller.
GbCollect(r) ==
    /\ active = r
    /\ pc[r] = "collect"
    /\ LET all == gbResults[r] \o PromiseAllValues(BatchWaypoints(r), resolved[r])
       IN  /\ gbResults' = [gbResults EXCEPT ![r] = all]
           /\ IF gbI[r] + BatchSize < Len(gbPoints[r])
              THEN /\ pc' = [pc EXCEPT ![r] = "gbDelay"]
                   /\ active' = 0
                   /\ UNCHANGED batchResults
              ELSE /\ pc' = [pc EXCEPT ![r] = "merge"]
                   /\ active' = r
                   /\ batchResults' = [batchResults EXCEPT ![r] = all]
    /\ resolved' = [resolved EXCEPT ![r] = <<>>]
    /\ UNCHANGED <<provider, unitVars, appVars, formData, pointsToFetch, i, accVars, gbPoints, gbI,
                   pending, histVars>>

\* The 100 ms timer of getMapillaryImagesBatch fires: the next batch of the
\* same invocation is issued.
GbDelayElapsed(r) ==
    /\ active = 0
    /\ pc[r] = "gbDelay"
    /\ pauses' = [pauses EXCEPT ![r] = @ + 1]
    /\ IssueBatch(r, gbPoints[r], gbI[r] + BatchSize)
    /\ UNCHANGED <<provider, unitVars, appVars, formData, pointsToFetch, i, accVars, batchResults,
                   gbResults, alertMsg, cancelRequested>>

\* ------------------------------------------------- merge of a batch
\* Mutant of Candidate: the identifier is not looked up.
CandidateAnyId(imageData, ids) == imageData # Null

\* imageData && !usedImageIds.has(imageData.id)
Candidate(imageData, ids) == imageData # Null /\ imageData.id \notin ids

\* Mutant of tooClose: the comparison is the wrong way round.
tooCloseReversed(imageCoord, usedLocations) ==
    \E k \in DOMAIN usedLocations :
        distance(imageCoord, usedLocations[k]) > MinImageDistanceM

\* The inner loop over usedImageLocations.
tooClose(imageCoord, usedLocations) ==
    \E k \in DOMAIN usedLocations :
        distance(imageCoord, usedLocations[k]) < MinImageDistanceM

\* batchResults.forEach((imageData, idx) => ...) from position idx on, over the
\* accumulators acc; threw: imageData.geometry.coordinates of an image without
\* geometry raised a TypeError, which ends the forEach.
RECURSIVE MergeFrom(_, _, _)
MergeFrom(results, idx, acc) ==
    IF idx > Len(results) \/ acc.threw
    THEN acc
    ELSE
      LET imageData == results[idx].image
      IN  IF ~Candidate(imageData, acc.ids)
          THEN MergeFrom(results, idx + 1, acc)
          ELSE IF imageData.geometry = <<>>
          THEN [acc EXCEPT !.threw = TRUE]
          ELSE
            LET imgLon     == imageData.geometry[1]
                imgLat     == imageData.geometry[2]
                imageCoord == <<imgLat, imgLon>>
            IN  IF tooClose(imageCoord, acc.locations)
                THEN MergeFrom(results, idx + 1, acc)
                ELSE MergeFrom(results, idx + 1,
                        [acc EXCEPT !.images      = Append(@, imageData.thumbUrl),
                                    !.coordinates = Append(@, imageCoord),
                                    !.ids         = @ \cup {imageData.id},
                                    !.locations   = Append(@, imageCoord),
                                    !.accepted    = Append(@, [wp |-> results[idx].wp,
                                                               id |-> imageData.id])])

\* Mutant of SpreadCopy: only the entries after the first are handed over.
SpreadTail(arr) == IF arr = <<>> THEN arr ELSE Tail(arr)

\* [...fetchedImages]: the copy handed to setImages / setCoordinates.
SpreadCopy(arr) == arr

\* The batch results are merged, the snapshot exposed and the progress set; a
\* TypeError of the merge reaches the catch block instead.
Merge(r) ==
    /\ active = r
    /\ pc[r] = "merge"
    /\ LET acc == MergeFrom(batchResults[r], 1,
                      [images      |-> fetchedImages[r],
                       coordinates |-> fetchedCoordinates[r],
                       ids         |-> usedImageIds[r],
                       locations   |-> usedImageLocations[r],
                       accepted    |-> accepted[r],
                       threw       |-> FALSE])
       IN  /\ fetchedImages' = [fetchedImages EXCEPT ![r] = acc.images]
           /\ fetchedCoordinates' = [fetchedCoordinates EXCEPT ![r] = acc.coordinates]
           /\ usedImageIds' = [usedImageIds EXCEPT ![r] = acc.ids]
           /\ usedImageLocations' = [usedImageLocations EXCEPT ![r] = acc.locations]
           /\ accepted' = [accepted EXCEPT ![r] = acc.accepted]
           /\ IF acc.threw
              THEN /\ Catch(r, "TypeError")
                   /\ UNCHANGED <<images, coordinates, i>>
              ELSE /\ images' = SpreadCopy(acc.images)
                   /\ coordinates' = SpreadCopy(acc.coordinates)
                   /\ isLoading' = TRUE
                   /\ i' = [i EXCEPT ![r] = @ + BatchSize]
                   /\ pc' = [pc EXCEPT ![r] = "loop"]
                   /\ UNCHANGED <<active, formData, alertMsg>>
    /\ batchResults' = [batchResults EXCEPT ![r] = <<>>]
    /\ UNCHANGED <<provider, unitVars, showSlideshow, cancelDownloadRef, pointsToFetch, gbVars,
                   batchesStarted, pauses, cancelRequested>>

\* --------------------------------------------------- handleCloseSlideshow
\* The user closes the slideshow (its close button is rendered while the
\* slideshow is shown).
Close ==
    /\ active = 0
    /\ showSlideshow
    /\ cancelDownloadRef' = TRUE
    /\ showSlideshow' = FALSE
    /\ isLoading' = FALSE
    /\ cancelRequested' = [r \in Runs |->
            cancelRequested[r] \/ pc[r] \notin Terminal \cup {"idle"}]
    /\ UNCHANGED <<provider, unitVars, images, coordinates, active, pc, formData, pointsToFetch, i,
                   accVars, batchResults, gbVars, alertMsg, batchesStarted, pauses>>

\* ------------------------------------------------------------ the system
\* What a run does without the user: its continuations and the network.
RunStep(r) ==
    \/ \E response \in GeocodeResponses : GeocodeOriginReturns(r, response)
    \/ Destination(r)
    \/ \E response \in GeocodeResponses : GeocodeDestinationReturns(r, response)
    \/ \E response \in RouteResponses : RouteReturns(r, response)
    \/ StartBatch(r)
    \/ CancelBreak(r)
    \/ Finish(r)
    \/ \E w \in 1..MaxPoints, response \in LookupResponses(provider) :
            LookupResolves(r, w, response)
    \/ GbCollect(r)
    \/ Merge(r)

\* What the user does: submit the form, close the slideshow.
UserStep ==
    \/ \E r \in Runs, data \in FormInputs \X FormInputs : Submit(r, data)
    \/ Close

Next ==
    \/ UserStep
    \/ \E r \in Runs : RunStep(r)

Spec == Init /\ [][Next]_vars

\* Every call to the network settles and every continuation runs. Whether a
\* run ends does not depend on which images the provider holds beyond their
\* having a geometry or not, so the behaviours checked for liveness start with
\* the data set that has one image of each kind.
InitFair == Init /\ provider = {Image1, Image4}

FairSpec == InitFair /\ [][Next]_vars /\ \A r \in Runs : WF_vars(RunStep(r))

\* ------------------------------ getMapillaryImagesBatch called on its own
\* The route of n waypoints, n >= 1.
RouteOf(n) == << <<0, 0>>, <<TargetSpacingM * (n - 1) + 20, 0>> >>

\* A caller other than handleFormSubmit passes n points to
\* getMapillaryImagesBatch(points): with none the loop is not entered and the
\* empty results are returned, else the first batch is issued.
CallBatch(r, n) ==
    /\ active = 0
    /\ pc[r] = "idle"
    /\ gbResults' = [gbResults EXCEPT ![r] = <<>>]
    /\ IF n = 0
       THEN /\ pc' = [pc EXCEPT ![r] = "merge"]
            /\ active' = r
            /\ UNCHANGED <<gbPoints, gbI, pending, resolved, batchesStarted>>
       ELSE IssueBatch(r, generateEvenlySpacedPoints(RouteOf(n), TargetSpacingM), 0)
    /\ UNCHANGED <<provider, unitVars, appVars, formData, pointsToFetch, i, accVars, batchResults,
                   alertMsg, pauses, cancelRequested>>

\* The caller has the results.
Returned(r) ==
    /\ active = r
    /\ pc[r] = "merge"
    /\ pc' = [pc EXCEPT ![r] = "returned"]
    /\ active' = 0
    /\ UNCHANGED <<provider, unitVars, appVars, formData, pointsToFetch, i, accVars, batchResults,
                   gbVars, histVars>>

BatchNext ==
    \/ \E r \in Runs, n \in 0..MaxPoints : CallBatch(r, n)
    \/ \E r \in Runs, w \in 1..MaxPoints, response \in LookupResponses(provider) :
            LookupResolves(r, w, response)
    \/ \E r \in Runs : GbCollect(r)
    \/ \E r \in Runs : GbDelayElapsed(r)
    \/ \E r \in Runs : Returned(r)

\* getMapillaryImagesBatch under callers that pass it any number of points.
BatchSpec == Init /\ [][BatchNext]_vars

\* ------------------------------ generateEvenlySpacedPoints called on its own
\* The routes the sampler is called with: up to MaxRoutePoints points from
\* <<0, 0>>, each leg running north or east by a whole number of metres, or
\* repeating the point (a zero-length segment).
Legs == { <<0, 0>>, <<2, 0>>, <<3, 0>>, <<0, 2>>, <<0, 4>> }

RECURSIVE RoutesOfLength(_)
RoutesOfLength(n) ==
    IF n = 0 THEN { <<>> }
    ELSE IF n = 1 THEN { << <<0, 0>> >> }
    ELSE { Append(route, <<route[n - 1][1] + leg[1], route[n - 1][2] + leg[2]>>) :
             route \in RoutesOfLength(n - 1), leg \in Legs }

SamplerRoutes == UNION { RoutesOfLength(n) : n \in 0..MaxRoutePoints }

\* targetSpacingMeters, positive.
Spacings == 1..MaxSpacing

\* The waypoints a call may hold: one more than the longest route of the model
\* yields at the smallest positive spacing, so that only a call that places
\* waypoints without end is stopped.
MaxWaypoints == 4 * (MaxRoutePoints - 1) + 1

\* The frame of a call before its first statement.
SamplerCalls ==
    { [pc |-> "called", routeCoords |-> route, targetSpacingMeters |-> spacing,
       segmentLengths |-> <<>>, totalDistance |-> 0, nextPointDistance |-> 0,
       accumulatedDistance |-> 0, currentSegmentIndex |-> 0, distanceIntoSegment |-> 0,
       result |-> <<>>] : route \in SamplerRoutes, spacing \in Spacings }

\* Mutant of TooShortReturn: the route's points are handed back as waypoints.
TooShortReturnsRoute(routeCoords) ==
    [k \in 1..Len(routeCoords) |-> [coord |-> routeCoords[k], bearing |-> 0]]

\* if (routeCoords.length < 2) return []
TooShortReturn(routeCoords) == <<>>

\* Mutant of FirstWaypoint: the bearing is taken from point 1 back to point 0.
FirstWaypointReversed(routeCoords) ==
    [coord   |-> routeCoords[1],
     bearing |-> calculateInitialCompassBearing(routeCoords[2], routeCoords[1])]

\* The first point: { coord: routeCoords[0], bearing: firstBearing }.
FirstWaypoint(routeCoords) ==
    [coord   |-> routeCoords[1],
     bearing |-> calculateInitialCompassBearing(routeCoords[1], routeCoords[2])]

\* while (nextPointDistance < totalDistance &&
\*        currentSegmentIndex < routeCoords.length - 1)
LoopCondition(f) ==
    /\ f.nextPointDistance < f.totalDistance
    /\ f.currentSegmentIndex < Len(f.routeCoords) - 1

\* remainingInSegment = segmentLength - distanceIntoSegment
remainingInSegment(f) ==
    f.segmentLengths[f.currentSegmentIndex + 1] - f.distanceIntoSegment

\* Mutant of PointInCurrentSegment: the comparison is strict.
PointInCurrentSegmentStrict(f) ==
    f.nextPointDistance - f.accumulatedDistance < remainingInSegment(f)

\* Mutant of PointInCurrentSegment: the operands of the subtraction swapped.
PointInCurrentSegmentSwapped(f) ==
    f.accumulatedDistance - f.nextPointDistance <= remainingInSegment(f)

\* if (nextPointDistance - accumulatedDistance <= remainingInSegment)
PointInCurrentSegment(f) ==
    f.nextPointDistance - f.accumulatedDistance <= remainingInSegment(f)

\* Mutant of distanceAlongSegment: the distance before the segment is not
\* taken off.
distanceAlongRoute(f) == f.distanceIntoSegment + f.nextPointDistance

\* distanceAlongSegment = distanceIntoSegment +
\*                        (nextPointDistance - accumulatedDistance)
distanceAlongSegment(f) ==
    f.distanceIntoSegment + (f.nextPointDistance - f.accumulatedDistance)

\* From the call to the while loop: the early return, the segment lengths and
\* their total, the first point.
SamplerStart ==
    /\ sampler.pc = "called"
    /\ LET routeCoords == sampler.routeCoords
       IN  IF Len(routeCoords) < 2
           THEN sampler' = [sampler EXCEPT !.pc = "returned",
                                           !.result = TooShortReturn(routeCoords)]
           ELSE sampler' = [sampler EXCEPT
                    !.pc = "loop",
                    !.segmentLengths = SegmentLengths(routeCoords),
                    !.totalDistance = SumSeq(SegmentLengths(routeCoords)),
                    !.result = << FirstWaypoint(routeCoords) >>,
                    !.nextPointDistance = sampler.targetSpacingMeters]
    /\ UNCHANGED <<provider, appVars, active, pc, formData, pointsToFetch, i, accVars,
                   batchResults, gbVars, histVars, selector, decoder, slideshow, geodesy>>

\* One turn of the loop that places a waypoint in the current segment (the
\* model stops a call at MaxWaypoints waypoints).
SamplerEmit ==
    /\ sampler.pc = "loop"
    /\ LoopCondition(sampler)
    /\ PointInCurrentSegment(sampler)
    /\ Len(sampler.result) < MaxWaypoints
    /\ LET segmentStart == sampler.routeCoords[sampler.currentSegmentIndex + 1]
           segmentEnd   == sampler.routeCoords[sampler.currentSegmentIndex + 2]
           bearing      == calculateInitialCompassBearing(segmentStart, segmentEnd)
           interpolatedCoord ==
               calculateDestinationPoint(segmentStart, bearing,
                                         distanceAlongSegment(sampler))
       IN  sampler' = [sampler EXCEPT
                !.result = Append(@, [coord |-> interpolatedCoord, bearing |-> bearing]),
                !.nextPointDistance = @ + sampler.targetSpacingMeters]
    /\ UNCHANGED <<provider, appVars, active, pc, formData, pointsToFetch, i, accVars,
                   batchResults, gbVars, histVars, selector, decoder, slideshow, geodesy>>

\* One turn of the loop that moves to the next segment.
SamplerAdvance ==
    /\ sampler.pc = "loop"
    /\ LoopCondition(sampler)
    /\ ~PointInCurrentSegment(sampler)
    /\ sampler' = [sampler EXCEPT
            !.accumulatedDistance = @ + remainingInSegment(sampler),
            !.distanceIntoSegment = 0,
            !.currentSegmentIndex = @ + 1]
    /\ UNCHANGED <<provider, appVars, active, pc, formData, pointsToFetch, i, accVars,
                   batchResults, gbVars, histVars, selector, decoder, slideshow, geodesy>>

\* The loop ends: return result.
SamplerReturn ==
    /\ sampler.pc = "loop"
    /\ ~LoopCondition(sampler)
    /\ sampler' = [sampler EXCEPT !.pc = "returned"]
    /\ UNCHANGED <<provider, appVars, active, pc, formData, pointsToFetch, i, accVars,
                   batchResults, gbVars, histVars, selector, decoder, slideshow, geodesy>>

SamplerNext ==
    \/ SamplerStart
    \/ SamplerEmit
    \/ SamplerAdvance
    \/ SamplerReturn

SamplerInit ==
    /\ AppInit
    /\ provider = {Image1, Image2}
    /\ sampler \in SamplerCalls
    /\ selector = NotCalled
    /\ decoder = NotCalled
    /\ slideshow = NotCalled
    /\ geodesy = NotCalled

\* generateEvenlySpacedPoints under every route and spacing of the bounds; the
\* call runs on (it awaits nothing).
SamplerSpec == SamplerInit /\ [][SamplerNext]_vars /\ WF_vars(SamplerNext)

\* targetSpacingMeters is a number: negative, zero or positive.
NumericSpacings == { 0 - 1, 0, 1 }

NumericSpacingInit ==
    /\ AppInit
    /\ provider = {Image1, Image2}
    /\ sampler \in { [call EXCEPT !.targetSpacingMeters = spacing] :
                       call \in SamplerCalls, spacing \in NumericSpacings }
    /\ selector = NotCalled
    /\ decoder = NotCalled
    /\ slideshow = NotCalled
    /\ geodesy = NotCalled

\* generateEvenlySpacedPoints under every route of the bounds and a spacing of
\* either sign.
NumericSpacingSpec == NumericSpacingInit /\ [][SamplerNext]_vars /\ WF_vars(SamplerNext)

\* ------------------------- the candidate loop of getMapillaryImage on its own
\* Degrees are counted in units of 0.0001: the threshold 0.0002 is 2, the
\* default distance 0.0001 is 1, and distance * 10000 is the distance in units.
\* Angles are whole degrees.

\* computed_compass_angle of a record that reports none (undefined).
NoAngle == -1

\* A record of data.data. geometry is <<lon, lat>> as the provider gives it,
\* or <<>> when the record has none.
ProviderRecord(id, pano, thumb, angle, geometry) ==
    [id |-> id, is_pano |-> pano, thumb_2048_url |-> thumb,
     computed_compass_angle |-> angle, geometry |-> geometry]

\* The records the provider answers with around the target <<0, 0>>: one well
\* inside both limits, one exactly at both limits (45 degrees, distance 2),
\* one a degree beyond the heading limit, one beyond the distance limit
\* (distance sqrt 5), a panorama, one without thumb, one without compass
\* angle, one heading due north (angle 0), one heading 350 at distance 1, and
\* one without geometry. Every distance within the limit is a whole number
\* of units.
CandidateRecords ==
    { ProviderRecord(1,  FALSE, "t1",  10,      <<0, 0>>),
      ProviderRecord(2,  FALSE, "t2",  45,      <<0, 2>>),
      ProviderRecord(3,  FALSE, "t3",  46,      <<0, 0>>),
      ProviderRecord(4,  FALSE, "t4",  10,      <<2, 1>>),
      ProviderRecord(5,  TRUE,  "t5",  10,      <<0, 0>>),
      ProviderRecord(6,  FALSE, "",    10,      <<0, 0>>),
      ProviderRecord(7,  FALSE, "t7",  NoAngle, <<0, 0>>),
      ProviderRecord(8,  FALSE, "t8",  0,       <<0, 0>>),
      ProviderRecord(9,  FALSE, "t9",  350,     <<1, 0>>),
      ProviderRecord(10, FALSE, "t10", 10,      <<>>) }

RECURSIVE SeqsUpTo(_, _)
SeqsUpTo(S, n) ==
    IF n = 0 THEN { <<>> }
    ELSE SeqsUpTo(S, n - 1)
         \cup { Append(q, x) : q \in { t \in SeqsUpTo(S, n - 1) : Len(t) = n - 1 }, x \in S }

\* The desired headings: due north, and 350 (for the wrap around 360).
Headings == { 0, 350 }

\* let bestScore = Infinity
Infinity == 1000000

\* let bestImage = null
NoCandidate == ProviderRecord(0, FALSE, "", NoAngle, <<>>)

\* The frame of a call that received the provider's answer data.
SelectorCalls ==
    { [pc |-> "called", coord |-> <<0, 0>>, heading |-> heading, data |-> data,
       index |-> 0, bestImage |-> NoCandidate, bestScore |-> Infinity, out |-> Null] :
        heading \in Headings, data \in SeqsUpTo(CandidateRecords, MaxCandidates) }

\* if (image.is_pano || !image.thumb_2048_url) continue
SkippedAtOnce(image) == image.is_pano \/ image.thumb_2048_url = ""

\* Math.pow(imgLat - lat, 2) + Math.pow(imgLon - lon, 2), for a record with
\* geometry; coord is <<lat, lon>>.
planarDistanceSquared(image, coord) ==
    LET imgLon == image.geometry[1]
        imgLat == image.geometry[2]
    IN  (imgLat - coord[1]) * (imgLat - coord[1]) + (imgLon - coord[2]) * (imgLon - coord[2])

\* let distance = 0.0001; if (image.geometry?.coordinates) distance = Math.sqrt(...)
candidateDistance(image, coord) ==
    IF image.geometry = <<>> THEN 1 ELSE ISqrt(planarDistanceSquared(image, coord))

\* Mutant of TooFar: a record exactly at the threshold is rejected too.
TooFarInclusive(image, coord) ==
    image.geometry # <<>> /\ planarDistanceSquared(image, coord) >= 2 * 2

\* if (distance > 0.0002) continue, inside if (image.geometry?.coordinates).
TooFar(image, coord) ==
    image.geometry # <<>> /\ planarDistanceSquared(image, coord) > 2 * 2

\* if (!image.computed_compass_angle) continue: undefined and 0 are falsy.
AngleMissing(image) ==
    image.computed_compass_angle = NoAngle \/ image.computed_compass_angle = 0

\* angleDiff = Math.abs(angle - heading); if (angleDiff > 180) angleDiff = 360 - angleDiff
angleDiff(image, heading) ==
    LET diff == Abs(image.computed_compass_angle - heading)
    IN  IF diff > 180 THEN 360 - diff ELSE diff

\* if (angleDiff > 45) continue
HeadingOff(image, heading) == angleDiff(image, heading) > 45

\* score = angleDiff * 3 + distance * 10000
score(image, coord, heading) ==
    angleDiff(image, heading) * 3 + candidateDistance(image, coord)

\* Mutant of Better: a later record with the same score replaces the best.
BetterOrEqual(newScore, bestScore) == newScore <= bestScore

\* if (score < bestScore)
Better(newScore, bestScore) == newScore < bestScore

\* The checks of one turn of the loop, in the order of the source.
Rejects(image, coord, heading) ==
    \/ SkippedAtOnce(image)
    \/ TooFar(image, coord)
    \/ AngleMissing(image)
    \/ HeadingOff(image, heading)

\* if (data.data && data.data.length > 0): into the loop, else return null.
SelectorEnter ==
    /\ selector.pc = "called"
    /\ IF Len(selector.data) > 0
       THEN selector' = [selector EXCEPT !.pc = "loop", !.index = 1]
       ELSE selector' = [selector EXCEPT !.pc = "returned", !.out = Null]
    /\ UNCHANGED <<provider, appVars, active, pc, formData, pointsToFetch, i, accVars,
                   batchResults, gbVars, histVars, sampler, decoder, slideshow, geodesy>>

\* One turn of for (const image of data.data).
SelectorVisit ==
    /\ selector.pc = "loop"
    /\ selector.index <= Len(selector.data)
    /\ LET image    == selector.data[selector.index]
           newScore == score(image, selector.coord, selector.heading)
       IN  IF ~Rejects(image, selector.coord, selector.heading)
              /\ Better(newScore, selector.bestScore)
           THEN selector' = [selector EXCEPT !.index = @ + 1,
                                             !.bestScore = newScore,
                                             !.bestImage = image]
           ELSE selector' = [selector EXCEPT !.index = @ + 1]
    /\ UNCHANGED <<provider, appVars, active, pc, formData, pointsToFetch, i, accVars,
                   batchResults, gbVars, histVars, sampler, decoder, slideshow, geodesy>>

\* After the loop: if (bestImage) return { id, thumbUrl, computedCompassAngle,
\* geometry }, else return null.
SelectorReturn ==
    /\ selector.pc = "loop"
    /\ selector.index > Len(selector.data)
    /\ selector' = [selector EXCEPT
            !.pc = "returned",
            !.out = IF selector.bestImage = NoCandidate
                    THEN Null
                    ELSE [id |-> selector.bestImage.id,
                          thumbUrl |-> selector.bestImage.thumb_2048_url,
                          computedCompassAngle |-> selector.bestImage.computed_compass_angle,
                          geometry |-> selector.bestImage.geometry]]
    /\ UNCHANGED <<provider, appVars, active, pc, formData, pointsToFetch, i, accVars,
                   batchResults, gbVars, histVars, sampler, decoder, slideshow, geodesy>>

SelectorNext ==
    \/ SelectorEnter
    \/ SelectorVisit
    \/ SelectorReturn

SelectorInit ==
    /\ AppInit
    /\ provider = {Image1, Image2}
    /\ sampler = NotCalled
    /\ selector \in SelectorCalls
    /\ decoder = NotCalled
    /\ slideshow = NotCalled
    /\ geodesy = NotCalled

\* The selection of getMapillaryImage under every answer of the bounds.
SelectorSpec == SelectorInit /\ [][SelectorNext]_vars /\ WF_vars(SelectorNext)


\* ------------------------------------------ ImageSlideshow on its own
\* The component between its mount and its unmount. React renders it with
\* the props and the state of the moment, then runs the effects whose
\* dependencies changed; what an effect sets makes the next render. The
\* effects of a render have run before the next event is handled.

\* The images the parent hands over.
MaxImages == 3

\* (a) % (length) of JavaScript: NaN when an operand is NaN or length is 0.
Remainder(a, length) == IF a = NaN \/ length = 0 THEN NaN ELSE a % length

\* a >= b of JavaScript: false when either is NaN.
GreaterOrEqual(a, b) == a # NaN /\ b # NaN /\ a >= b

\* a + b of JavaScript.
Plus(a, b) == IF a = NaN \/ b = NaN THEN NaN ELSE a + b

\* handlePrevious: (prev - 1 + images.length) % images.length, with the
\* images.length of the render the handler was made in.
handlePrevious(prev, length) == Remainder(Plus(prev, length - 1), length)

\* handleNext: (prev + 1) % images.length.
handleNext(prev, length) == Remainder(Plus(prev, 1), length)

\* The update of the playback interval.
IntervalUpdate(prev, currentLength, loading) ==
    IF currentLength = 0 THEN prev
    ELSE LET nextIndex == Plus(prev, 1)
         IN  IF GreaterOrEqual(nextIndex, currentLength)
             THEN IF loading THEN prev ELSE 0
             ELSE nextIndex

\* What a render was made of: the props and the state the effects depend on.
Rendered(f) ==
    [imagesLength |-> f.imagesLength, isLoading |-> f.isLoading,
     currentIndex |-> f.currentIndex, isPlaying |-> f.isPlaying]

\* The component as the App mounts it (images empty, loading), its first
\* effects run. deps is the render the effects last ran for; keyLength is the
\* images.length that the key handler of the keyboard effect holds;
\* timeoutSet: the timeout of the message is pending; graceElapsed:
\* MINIMUM_WAIT_TIME has passed since the mount; pausedByUser (history): the
\* last use of play/pause was a pause with images present.
SlideshowMounted ==
    [pc |-> "mounted", imagesLength |-> 0, isLoading |-> TRUE,
     currentIndex |-> 0, isPlaying |-> FALSE, showNoImagesMessage |-> FALSE,
     graceElapsed |-> FALSE, timeoutSet |-> FALSE, keyLength |-> 0,
     deps |-> [imagesLength |-> 0, isLoading |-> TRUE,
               currentIndex |-> 0, isPlaying |-> FALSE],
     pausedByUser |-> FALSE]

\* A render whose effects have not run yet.
EffectsPending(f) == f.pc = "mounted" /\ f.deps # Rendered(f)

\* The effect on [images.length, isPlaying] sets isPlaying.
AutoStart(f) ==
    /\ f.deps.imagesLength # f.imagesLength \/ f.deps.isPlaying # f.isPlaying
    /\ f.imagesLength > 0 /\ ~f.isPlaying

\* The effect on [images.length, currentIndex] sets currentIndex.
ClampIndex(f) ==
    /\ f.deps.imagesLength # f.imagesLength \/ f.deps.currentIndex # f.currentIndex
    /\ f.imagesLength > 0 /\ GreaterOrEqual(f.currentIndex, f.imagesLength)

\* The effect on [images.length, isLoading] runs.
MessageEffectRuns(f) ==
    f.deps.imagesLength # f.imagesLength \/ f.deps.isLoading # f.isLoading

\* showNoImagesMessage after the effect on [images.length, isLoading] ran with
\* these props, elapsed telling whether MINIMUM_WAIT_TIME has passed since
\* the mount, shown being its value before.
NoImagesMessage(imagesLength, loading, elapsed, shown) ==
    IF imagesLength > 0 THEN FALSE
    ELSE IF loading THEN FALSE
    ELSE IF elapsed THEN TRUE
    ELSE shown

\* The effect on [currentIndex, isPlaying] runs: the key handler is made anew.
KeyboardEffectRuns(f) ==
    f.deps.currentIndex # f.currentIndex \/ f.deps.isPlaying # f.isPlaying

\* The effects of the last render run (the setters they call make the next
\* render).
RunEffects ==
    /\ EffectsPending(slideshow)
    /\ slideshow' = [slideshow EXCEPT
            !.deps = Rendered(slideshow),
            !.isPlaying = IF AutoStart(slideshow) THEN TRUE ELSE @,
            !.currentIndex = IF ClampIndex(slideshow)
                             THEN slideshow.imagesLength - 1 ELSE @,
            !.showNoImagesMessage =
                IF MessageEffectRuns(slideshow)
                THEN NoImagesMessage(slideshow.imagesLength, slideshow.isLoading,
                                     slideshow.graceElapsed, @)
                ELSE @,
            !.timeoutSet =
                IF MessageEffectRuns(slideshow)
                THEN slideshow.imagesLength = 0 /\ ~slideshow.isLoading
                     /\ ~slideshow.graceElapsed
                ELSE @,
            !.keyLength = IF KeyboardEffectRuns(slideshow)
                          THEN slideshow.imagesLength ELSE @]
    /\ UNCHANGED <<provider, appVars, active, pc, formData, pointsToFetch, i, accVars,
                   batchResults, gbVars, histVars, sampler, selector, decoder, geodesy>>

\* The parent renders the component with other props: more images while it
\* loads, or the loading finished (or both, after the last batch).
PropsChange(imagesLength, loading) ==
    /\ slideshow.pc = "mounted"
    /\ ~EffectsPending(slideshow)
    /\ slideshow.isLoading
    /\ imagesLength >= slideshow.imagesLength
    /\ <<imagesLength, loading>> # <<slideshow.imagesLength, slideshow.isLoading>>
    /\ slideshow' = [slideshow EXCEPT !.imagesLength = imagesLength, !.isLoading = loading]
    /\ UNCHANGED <<provider, appVars, active, pc, formData, pointsToFetch, i, accVars,
                   batchResults, gbVars, histVars, sampler, selector, decoder, geodesy>>

\* handlePlayPause: setIsPlaying(!isPlaying).
handlePlayPause(f) ==
    [f EXCEPT !.isPlaying = ~f.isPlaying,
              !.pausedByUser = f.isPlaying /\ f.imagesLength > 0]

\* A key goes down: handleKeyPress of the keyboard effect.
KeyDown(key) ==
    /\ slideshow.pc = "mounted"
    /\ ~EffectsPending(slideshow)
    /\ slideshow' =
          CASE key = "ArrowLeft" ->
                 [slideshow EXCEPT !.currentIndex = handlePrevious(@, slideshow.keyLength)]
            [] key = "ArrowRight" ->
                 [slideshow EXCEPT !.currentIndex = handleNext(@, slideshow.keyLength)]
            [] key = " " -> handlePlayPause(slideshow)
    /\ UNCHANGED <<provider, appVars, active, pc, formData, pointsToFetch, i, accVars,
                   batchResults, gbVars, histVars, sampler, selector, decoder, geodesy>>

\* A control button is clicked (the buttons are disabled while the list is
\* empty); its handler is the one of the last render.
Click(button) ==
    /\ slideshow.pc = "mounted"
    /\ ~EffectsPending(slideshow)
    /\ slideshow.imagesLength # 0
    /\ slideshow' =
          CASE button = "Previous" ->
                 [slideshow EXCEPT !.currentIndex = handlePrevious(@, slideshow.imagesLength)]
            [] button = "Next" ->
                 [slideshow EXCEPT !.currentIndex = handleNext(@, slideshow.imagesLength)]
            [] button = "PlayPause" -> handlePlayPause(slideshow)
    /\ UNCHANGED <<provider, appVars, active, pc, formData, pointsToFetch, i, accVars,
                   batchResults, gbVars, histVars, sampler, selector, decoder, geodesy>>

\* The playback interval fires (it is set while isPlaying).
Tick ==
    /\ slideshow.pc = "mounted"
    /\ ~EffectsPending(slideshow)
    /\ slideshow.isPlaying
    /\ slideshow' = [slideshow EXCEPT
            !.currentIndex = IntervalUpdate(@, slideshow.imagesLength, slideshow.isLoading)]
    /\ UNCHANGED <<provider, appVars, active, pc, formData, pointsToFetch, i, accVars,
                   batchResults, gbVars, histVars, sampler, selector, decoder, geodesy>>

\* MINIMUM_WAIT_TIME passes since the mount.
GraceElapses ==
    /\ slideshow.pc = "mounted"
    /\ ~slideshow.graceElapsed
    /\ slideshow' = [slideshow EXCEPT !.graceElapsed = TRUE]
    /\ UNCHANGED <<provider, appVars, active, pc, formData, pointsToFetch, i, accVars,
                   batchResults, gbVars, histVars, sampler, selector, decoder, geodesy>>

\* The timeout of the message fires: it was set for the rest of
\* MINIMUM_WAIT_TIME.
TimeoutFires ==
    /\ slideshow.pc = "mounted"
    /\ ~EffectsPending(slideshow)
    /\ slideshow.timeoutSet
    /\ slideshow.graceElapsed
    /\ slideshow' = [slideshow EXCEPT !.timeoutSet = FALSE, !.showNoImagesMessage = TRUE]
    /\ UNCHANGED <<provider, appVars, active, pc, formData, pointsToFetch, i, accVars,
                   batchResults, gbVars, histVars, sampler, selector, decoder, geodesy>>

SlideshowNext ==
    \/ RunEffects
    \/ \E imagesLength \in 0..MaxImages, loading \in BOOLEAN : PropsChange(imagesLength, loading)
    \/ \E key \in {"ArrowLeft", "ArrowRight", " "} : KeyDown(key)
    \/ \E button \in {"Previous", "Next", "PlayPause"} : Click(button)
    \/ Tick
    \/ GraceElapses
    \/ TimeoutFires

SlideshowInit ==
    /\ AppInit
    /\ provider = {Image1, Image2}
    /\ sampler = NotCalled
    /\ selector = NotCalled
    /\ decoder = NotCalled
    /\ slideshow = SlideshowMounted
    /\ geodesy = NotCalled

\* The component under every sequence of events, the effects of a render
\* running before anything else.
SlideshowSpec == SlideshowInit /\ [][SlideshowNext]_vars /\ WF_vars(RunEffects)


\* --------------------------- the geodesy functions along the equator
\* On the equator the formulas of calculateDestinationPoint,
\* calculateInitialCompassBearing and distance are exact in whole degrees:
\* with lat1 = 0 and a bearing due east or west, sin(lat1) = 0, cos(lat1) = 1
\* and cos(bearingRad) = 0, so lat2 = asin(0) = 0 and
\* lon2 = lon1 + atan2(+-sin(d/R), cos(d/R)), the arc d/R brought into
\* (-180, 180] by atan2 and added east or west. Distances are arcs in whole
\* degrees (1 degree is 111.19 km); arcs of 0 and 180 modulo 360, where the
\* sign of a rounding error decides the result, are left out.

\* atan2(sin a, cos a) in degrees: the angle a brought into (-180, 180].
Atan2Degrees(a) ==
    LET m == a % 360
    IN  IF m > 180 THEN m - 360 ELSE m

\* calculateDestinationPoint([0, lon], bearing, arc) for bearing 90 or 270:
\* [toDegrees(lat2), toDegrees(lon2)].
calculateDestinationPointOnEquator(point, bearing, arc) ==
    << 0, point[2] + Atan2Degrees(IF bearing = 90 THEN arc ELSE 0 - arc) >>

\* calculateInitialCompassBearing between two points of the equator whose
\* longitudes differ by neither 0 nor 180 modulo 360: x = sin(diffLong),
\* y = 0, so atan2(x, y) is 90 or -90, and (-90 + 360) % 360 = 270.
calculateInitialCompassBearingOnEquator(pointA, pointB) ==
    IF Atan2Degrees(pointB[2] - pointA[2]) > 0 THEN 90 ELSE 270

\* distance between two points of the equator, as an arc in degrees:
\* a = sin^2(dlon / 2), c = 2 atan2(sqrt(a), sqrt(1 - a)).
distanceOnEquator(origin, destination) ==
    Abs(Atan2Degrees(destination[2] - origin[2]))

\* Longitudes of the start points.
Longitudes == { 30 * k - 180 : k \in 1..12 }

\* The arcs travelled: less and more than half of the circumference.
Arcs == { 30, 90, 150, 210, 270, 330 }

\* The round trip called for a point, a bearing and an arc.
GeodesyCalls ==
    { [pc |-> "called", point |-> <<0, lon>>, bearing |-> bearing, arc |-> arc,
       destination |-> <<>>, initialBearing |-> 0, measured |-> 0] :
        lon \in Longitudes, bearing \in {90, 270}, arc \in Arcs }

\* destination = calculateDestinationPoint(point, bearing, distanceKm)
GeodesyProject ==
    /\ geodesy.pc = "called"
    /\ geodesy' = [geodesy EXCEPT
            !.pc = "projected",
            !.destination = calculateDestinationPointOnEquator(geodesy.point,
                                                               geodesy.bearing, geodesy.arc)]
    /\ UNCHANGED <<provider, appVars, active, pc, formData, pointsToFetch, i, accVars,
                   batchResults, gbVars, histVars, sampler, selector, decoder, slideshow>>

\* calculateInitialCompassBearing(point, destination), distance(point, destination)
GeodesyMeasure ==
    /\ geodesy.pc = "projected"
    /\ geodesy' = [geodesy EXCEPT
            !.pc = "measured",
            !.initialBearing = calculateInitialCompassBearingOnEquator(geodesy.point,
                                                                       geodesy.destination),
            !.measured = distanceOnEquator(geodesy.point, geodesy.destination)]
    /\ UNCHANGED <<provider, appVars, active, pc, formData, pointsToFetch, i, accVars,
                   batchResults, gbVars, histVars, sampler, selector, decoder, slideshow>>

GeodesyNext ==
    \/ GeodesyProject
    \/ GeodesyMeasure

GeodesyInit ==
    /\ AppInit
    /\ provider = {Image1, Image2}
    /\ sampler = NotCalled
    /\ selector = NotCalled
    /\ decoder = NotCalled
    /\ slideshow = NotCalled
    /\ geodesy \in GeodesyCalls

\* The round trip under every start point, bearing and arc of the model.
GeodesySpec == GeodesyInit /\ [][GeodesyNext]_vars /\ WF_vars(GeodesyNext)

\* ------------------------------------------------------ decode on its own
\* A string is the sequence of its char codes. The strings of the model are
\* short enough for every shift to stay below 32, where << does not wrap.

\* str.charCodeAt(index): NaN past the end of the string.
charCodeAt(str, index) == IF index < Len(str) THEN str[index + 1] ELSE NaN

\* byte = str.charCodeAt(index) - 63, NaN when the char code is.
byteAt(str, index) ==
    IF charCodeAt(str, index) = NaN THEN NaN ELSE charCodeAt(str, index) - 63

\* byte & 0x1f: ToInt32(NaN) is 0.
LowFiveBits(byte) == IF byte = NaN THEN 0 ELSE byte % 32

\* byte >= 0x20: false for NaN.
Continues(byte) == byte # NaN /\ byte >= 32

RECURSIVE Pow(_, _)
Pow(base, n) == IF n = 0 THEN 1 ELSE base * Pow(base, n - 1)

\* do { byte = str.charCodeAt(index++) - 63; result |= (byte & 0x1f) << shift;
\*      shift += 5 } while (byte >= 0x20), from index with the given shift and
\* result: the index and result after the loop.
RECURSIVE ReadGroups(_, _, _, _)
ReadGroups(str, index, shift, result) ==
    LET byte == byteAt(str, index)
        next == result + LowFiveBits(byte) * Pow(2, shift)
    IN  IF Continues(byte)
        THEN ReadGroups(str, index + 1, shift + 5, next)
        ELSE [index |-> index + 1, result |-> next]

\* Mutant of Change: the sign bit is not unfolded.
ChangeUnsigned(result) == result \div 2

\* result & 1 ? ~(result >> 1) : result >> 1
Change(result) ==
    IF result % 2 = 1 THEN -(result \div 2) - 1 ELSE result \div 2

\* lat / factor: the quotient, kept as numerator and denominator.
Quotient(n, factor) == [num |-> n, den |-> factor]

\* The raw strings decode is called with: every string of up to MaxStrLen
\* chars among '?' (0), '@' (1), 'A' (2), '_' (continuation, 0) and
\* '`' (continuation, 1).
CharCodes == { 63, 64, 65, 95, 96 }

RawStrings == SeqsUpTo(CharCodes, MaxStrLen)

\* Integer-scaled points (lat, lng in units of 10^-precision degrees), and the
\* sequences of up to MaxEncodedPoints of them.
ScaledValues == { -17, 0, 1 }

PointSeqs == SeqsUpTo(ScaledValues \X ScaledValues, MaxEncodedPoints)

\* The canonical encoding of one delta: zig-zag sign folding, then 5-bit
\* groups from the low end, each but the last with the continuation bit 0x20,
\* each offset by 63.
RECURSIVE EncodeGroups(_)
EncodeGroups(folded) ==
    IF folded >= 32
    THEN << (folded % 32) + 32 + 63 >> \o EncodeGroups(folded \div 32)
    ELSE << folded + 63 >>

EncodeValue(delta) ==
    EncodeGroups(IF delta < 0 THEN -2 * delta - 1 ELSE 2 * delta)

\* The canonical encoding of a sequence of points: per point the latitude
\* delta, then the longitude delta, from the point before (from <<0, 0>>).
RECURSIVE EncodeFrom(_, _, _)
EncodeFrom(points, k, previous) ==
    IF k > Len(points) THEN <<>>
    ELSE EncodeValue(points[k][1] - previous[1])
           \o EncodeValue(points[k][2] - previous[2])
           \o EncodeFrom(points, k + 1, points[k])

Encode(points) == EncodeFrom(points, 1, <<0, 0>>)

Encodings == [points \in PointSeqs |-> Encode(points)]

\* precision: the default 5 and 0.
Precisions == { 0, 5 }

\* The frame of a call before its first statement.
DecoderCalls ==
    { [pc |-> "called", str |-> str, precision |-> precision, index |-> 0,
       lat |-> 0, lng |-> 0, coordinates |-> <<>>] :
        str \in RawStrings \cup { Encodings[points] : points \in PointSeqs },
        precision \in Precisions }

\* One turn of while (index < str.length): the latitude change, the
\* longitude change, the point pushed.
DecodeTurn ==
    /\ decoder.pc \in {"called", "loop"}
    /\ decoder.index < Len(decoder.str)
    /\ LET factor          == Pow(10, decoder.precision)
           first           == ReadGroups(decoder.str, decoder.index, 0, 0)
           latitudeChange  == Change(first.result)
           second          == ReadGroups(decoder.str, first.index, 0, 0)
           longitudeChange == Change(second.result)
           lat             == decoder.lat + latitudeChange
           lng             == decoder.lng + longitudeChange
       IN  decoder' = [decoder EXCEPT
                !.pc = "loop",
                !.index = second.index,
                !.lat = lat,
                !.lng = lng,
                !.coordinates = Append(@, <<Quotient(lat, factor), Quotient(lng, factor)>>)]
    /\ UNCHANGED <<provider, appVars, active, pc, formData, pointsToFetch, i, accVars,
                   batchResults, gbVars, histVars, sampler, selector, slideshow, geodesy>>

\* The loop ends: return coordinates.
DecodeReturn ==
    /\ decoder.pc \in {"called", "loop"}
    /\ ~(decoder.index < Len(decoder.str))
    /\ decoder' = [decoder EXCEPT !.pc = "returned"]
    /\ UNCHANGED <<provider, appVars, active, pc, formData, pointsToFetch, i, accVars,
                   batchResults, gbVars, histVars, sampler, selector, slideshow, geodesy>>

DecoderNext ==
    \/ DecodeTurn
    \/ DecodeReturn

DecoderInit ==
    /\ AppInit
    /\ provider = {Image1, Image2}
    /\ sampler = NotCalled
    /\ selector = NotCalled
    /\ decoder \in DecoderCalls
    /\ slideshow = NotCalled
    /\ geodesy = NotCalled

\* decode under every string of the bounds.
DecoderSpec == DecoderInit /\ [][DecoderNext]_vars /\ WF_vars(DecoderNext)

\* ================================================================ claims

\* C1. Deduplication: at every point of a run, every two distinct entries of
\* its accumulated sequence have capture coordinates at least
\* minImageDistanceKm (30 m) apart.
C1_DedupInvariant ==
    \A r \in Runs :
        \A a, b \in DOMAIN fetchedCoordinates[r] :
            a # b => distance(fetchedCoordinates[r][a], fetchedCoordinates[r][b])
                        >= MinImageDistanceM

\* A run that accepted images from two different batches.
C1_Witness ==
    \E r \in Runs :
        /\ Len(fetchedCoordinates[r]) >= 2
        /\ accepted[r][1].wp <= BatchSize
        /\ accepted[r][Len(accepted[r])].wp > BatchSize

\* C2. Identifier uniqueness: within a run an image identifier is accepted at
\* most once: the accepted entries have pairwise different identifiers, and
\* each of them added a new identifier to usedImageIds.
C2_IdentifierUnique ==
    \A r \in Runs :
        /\ \A a, b \in DOMAIN accepted[r] : a # b => accepted[r][a].id # accepted[r][b].id
        /\ Len(accepted[r]) = Len(fetchedImages[r])
        /\ Cardinality(usedImageIds[r]) = Len(fetchedImages[r])

\* A run that accepted an image in its first batch and has merged a later
\* batch too.
C2_Witness ==
    \E r \in Runs :
        /\ pc[r] = "complete"
        /\ batchesStarted[r] >= 2
        /\ Len(accepted[r]) >= 2
        /\ 1 \in usedImageIds[r]

\* C3. Cancellation: once the slideshow was closed while a run was under way,
\* that run starts no further batch of lookups.
C3_NoBatchAfterCancel ==
    [][\A r \in Runs : cancelRequested[r] => batchesStarted'[r] = batchesStarted[r]]_vars

\* C4. Batches of a run are sequential: every lookup in flight belongs to the
\* batch the run awaits, so at most batchSize are in flight, and none is in
\* flight when the run is not awaiting a batch.
C4_BatchesSequential ==
    \A r \in Runs :
        /\ Cardinality(pending[r]) <= BatchSize
        /\ pending[r] \subseteq BatchWaypoints(r)
        /\ pc[r] # "awaitBatch" => pending[r] = {}

\* The second batch of a run is in flight after a full first batch.
C4_Witness ==
    \E r \in Runs :
        /\ batchesStarted[r] = 2
        /\ pending[r] # {}
        /\ i[r] = BatchSize

\* C5. Ordering: the accepted images of a run appear in the order of the
\* waypoints they were looked up for.
C5_WaypointOrder ==
    \A r \in Runs :
        \A a, b \in DOMAIN accepted[r] :
            a < b => accepted[r][a].wp < accepted[r][b].wp

\* Two images of the same batch were accepted.
C5_Witness ==
    \E r \in Runs :
        /\ Len(accepted[r]) >= 2
        /\ accepted[r][1].wp = 1
        /\ accepted[r][2].wp = 2

IsPrefix(s, t) == Len(s) <= Len(t) /\ SubSeq(t, 1, Len(s)) = s

\* The alerts of a failure before any image is looked up.
FatalAlerts == { "Geocoding failed", "Route request failed", "No route found" }

\* C6. Image-lookup failure isolation: every failed lookup yields null for its
\* waypoint, and a run whose batch holds a failed lookup has that batch merged
\* as usual and goes on: the step that follows the batch never ends the run
\* as failed.
C6_LookupFailureIsolated ==
    /\ [](\A r \in Runs : \A k \in DOMAIN resolved[r] :
            resolved[r][k].failed => resolved[r][k].value = Null)
    /\ [][\A r \in Runs :
            (pc[r] = "merge" /\ \E k \in DOMAIN batchResults[r] : batchResults[r][k].failed)
            => pc'[r] # "failed"]_vars

\* C7. Fatal failure without partial output: when a run fails on geocoding,
\* on the route request or on an empty route, it has issued no lookup, the
\* exposed images and coordinates are empty, the slideshow is not shown and
\* loading is reset.
C7_FatalFailureNoOutput ==
    [][\A r \in Runs :
          (pc[r] # "failed" /\ pc'[r] = "failed" /\ alertMsg'[r] \in FatalAlerts)
          => /\ batchesStarted'[r] = 0
             /\ images' = <<>>
             /\ coordinates' = <<>>
             /\ ~showSlideshow'
             /\ ~isLoading']_vars

\* C8. Run termination: every submitted run reaches a terminal state, the step
\* that reaches it leaves isLoading false, a terminal run changes neither its
\* state nor its accumulated result, and a cancelled run raised no alert.
C8_RunTerminates ==
    /\ \A r \in Runs : [](pc[r] # "idle" => <>(pc[r] \in Terminal))
    /\ [][\A r \in Runs :
            (pc[r] \notin Terminal /\ pc'[r] \in Terminal) => ~isLoading']_vars
    /\ [][\A r \in Runs :
            pc[r] \in Terminal
            => /\ pc'[r] = pc[r]
               /\ fetchedImages'[r] = fetchedImages[r]
               /\ fetchedCoordinates'[r] = fetchedCoordinates[r]]_vars
    /\ [](\A r \in Runs : pc[r] = "cancelled" => alertMsg[r] = "")

\* A run cancelled by the user after it had accepted an image.
C8_Witness ==
    \E r \in Runs :
        /\ pc[r] = "cancelled"
        /\ cancelRequested[r]
        /\ Len(fetchedImages[r]) > 0
        /\ ~isLoading

\* C9. Incremental snapshot: the step that merges a batch of a run exposes
\* the accumulated images and coordinates of that run; the accumulated
\* sequences of a run only grow at their end, so each snapshot of a run is a
\* prefix of its next; images and coordinates have equal length.
C9_IncrementalSnapshot ==
    /\ [][\A r \in Runs :
            (pc[r] = "merge" /\ pc'[r] = "loop")
            => /\ images' = fetchedImages'[r]
               /\ coordinates' = fetchedCoordinates'[r]]_vars
    /\ [][\A r \in Runs :
            /\ IsPrefix(fetchedImages[r], fetchedImages'[r])
            /\ IsPrefix(fetchedCoordinates[r], fetchedCoordinates'[r])]_vars
    /\ [](Len(images) = Len(coordinates))
    /\ [](\A r \in Runs : Len(fetchedImages[r]) = Len(fetchedCoordinates[r]))

\* The second batch of a run is merged and the snapshot holds an image of
\* each batch.
C9_Witness ==
    \E r \in Runs :
        /\ pc[r] = "loop"
        /\ i[r] = 2 * BatchSize
        /\ images = fetchedImages[r]
        /\ Len(images) >= 2
        /\ accepted[r][1].wp <= BatchSize
        /\ accepted[r][Len(accepted[r])].wp > BatchSize

\* C10. Pause between batches: a run has waited one delay between any two
\* consecutive batches it issued.
C10_PauseBetweenBatches ==
    \A r \in Runs : batchesStarted[r] <= pauses[r] + 1

\* The delay of getMapillaryImagesBatch is taken when the function is called
\* with more than batchSize points (under BatchSpec), and only then: from
\* handleFormSubmit (under Spec) no run ever waits it.
DelayNeverTakenByApp == \A r \in Runs : pc[r] # "gbDelay" /\ pauses[r] = 0

DelayTakenWhenCalledAlone ==
    \A r \in Runs : batchesStarted[r] <= pauses[r] + 1

DelayTakenWitness == \E r \in Runs : pauses[r] >= 1 /\ pc[r] = "returned"

\* ------------------------------------------------------------- sampler
\* Total length of a route, from its points.
RouteLength(routeCoords) == SumSeq(SegmentLengths(routeCoords))

\* Cumulative route distance of a point of a route whose legs run north or
\* east: the metres north plus the metres east of the route's first point.
RouteDistanceOf(routeCoords, coord) ==
    (coord[1] - routeCoords[1][1]) + (coord[2] - routeCoords[1][2])

\* C11. Sampler count: for a route of at least 2 points, of length L, and a
\* spacing s > 0 the sampler returns floor(L/s) interior waypoints and the
\* initial one, also when L is a multiple of s.
C11_SamplerCount ==
    (sampler.pc = "returned" /\ Len(sampler.routeCoords) >= 2)
    => Len(sampler.result)
         = (RouteLength(sampler.routeCoords) \div sampler.targetSpacingMeters) + 1

\* C12. Sampler positions: the k-th waypoint after the first lies at
\* cumulative route distance k*s, which is less than the route's length (so
\* the distances increase strictly), and the sampler returns a waypoint for
\* every multiple of s below the route's length.
C12_SamplerPositions ==
    LET route == sampler.routeCoords
        s     == sampler.targetSpacingMeters
    IN  sampler.pc \in {"loop", "returned"}
        => /\ \A k \in 2..Len(sampler.result) :
                /\ RouteDistanceOf(route, sampler.result[k].coord) = (k - 1) * s
                /\ (k - 1) * s < RouteLength(route)
                /\ RouteDistanceOf(route, sampler.result[k - 1].coord)
                     < RouteDistanceOf(route, sampler.result[k].coord)
           /\ sampler.pc = "returned"
                => \A m \in 1..RouteLength(route) :
                      m * s < RouteLength(route) => Len(sampler.result) >= m + 1

\* A returned call on a route that turns, with waypoints in both of its legs
\* and a length that is a multiple of the spacing.
C12_Witness ==
    /\ sampler.pc = "returned"
    /\ sampler.routeCoords = << <<0, 0>>, <<3, 0>>, <<3, 0>>, <<3, 4>> >>
    /\ sampler.targetSpacingMeters = 1
    /\ Len(sampler.result) = 7

\* C13. Zero-length segments: every call returns, and no waypoint is placed
\* in a segment of length 0 (the division by segmentLength is by a non-zero
\* length).
C13_ZeroLengthSegments ==
    /\ <>(sampler.pc = "returned")
    /\ [][(sampler.pc = "loop" /\ Len(sampler'.result) > Len(sampler.result))
            => sampler.segmentLengths[sampler.currentSegmentIndex + 1] # 0]_vars

\* A returned call on a route that starts with two zero-length segments and
\* has a third one further on; waypoints were placed.
C13_Witness ==
    /\ sampler.pc = "returned"
    /\ sampler.routeCoords = << <<0, 0>>, <<0, 0>>, <<0, 0>>, <<0, 4>> >>
    /\ Len(sampler.result) >= 3

\* C14. First waypoint: for a route of at least 2 points the first waypoint
\* is the route's first point with the bearing from point 0 to point 1, at
\* every moment of the call and whatever the spacing and the rest of the
\* route.
C14_FirstWaypoint ==
    (sampler.pc \in {"loop", "returned"} /\ Len(sampler.routeCoords) >= 2)
    => /\ Len(sampler.result) >= 1
       /\ sampler.result[1].coord = sampler.routeCoords[1]
       /\ sampler.result[1].bearing =
              calculateInitialCompassBearing(sampler.routeCoords[1],
                                             sampler.routeCoords[2])

\* A returned call whose route first runs east and then north, with further
\* waypoints after the first.
C14_Witness ==
    /\ sampler.pc = "returned"
    /\ sampler.routeCoords = << <<0, 0>>, <<0, 2>>, <<3, 2>> >>
    /\ Len(sampler.result) >= 3
    /\ sampler.result[1].bearing = 90

\* C15. Degenerate input: for a route of 0 or 1 points the sampler returns the
\* empty sequence, whatever the spacing.
C15_DegenerateRoute ==
    (sampler.pc = "returned" /\ Len(sampler.routeCoords) < 2)
    => sampler.result = <<>>

\* A returned call on a route of one point.
C15_Witness ==
    /\ sampler.pc = "returned"
    /\ Len(sampler.routeCoords) = 1
    /\ sampler.targetSpacingMeters = MaxSpacing

\* ------------------------------------------------------------ selector
\* Heading difference normalised with wrap-around to [0, 180].
HeadingDifference(angle, heading) ==
    Min(Abs(angle - heading), 360 - Abs(angle - heading))

\* The record of the answer that the returned image was built from.
SourceRecord(out) == CHOOSE c \in Range(selector.data) : c.id = out.id

\* A record fails a check the selector is specified to make; the limits are
\* exclusive: only a distance beyond 0.0002 and a heading difference beyond 45
\* reject. (The compass-angle check is the one of the source.)
HasCauseOfRejection(c) ==
    \/ c.is_pano
    \/ c.thumb_2048_url = ""
    \/ c.geometry # <<>> /\ planarDistanceSquared(c, selector.coord) > 4
    \/ AngleMissing(c)
    \/ HeadingDifference(c.computed_compass_angle, selector.heading) > 45

Survivors == { k \in DOMAIN selector.data :
                  ~Rejects(selector.data[k], selector.coord, selector.heading) }

\* score = headingDiff * 3 + planarDistance * 10000 of the record at k.
ScoreAt(k) ==
    LET c == selector.data[k]
    IN  HeadingDifference(c.computed_compass_angle, selector.heading) * 3
          + (IF c.geometry = <<>> THEN 1
             ELSE ISqrt(planarDistanceSquared(c, selector.coord)))

\* C17. Selector optimality: the selector returns none exactly when no record
\* of the answer survives the checks, and else the first of the survivors
\* with the least score.
C17_SelectorOptimal ==
    selector.pc = "returned"
    => /\ selector.out = Null <=> Survivors = {}
       /\ Survivors # {}
            => LET best == CHOOSE k \in Survivors :
                              \A j \in Survivors :
                                  \/ ScoreAt(k) < ScoreAt(j)
                                  \/ ScoreAt(k) = ScoreAt(j) /\ k <= j
               IN  /\ selector.out.id = selector.data[best].id
                   /\ selector.bestScore = ScoreAt(best)

\* Two survivors with the same least score (31) after a survivor with a
\* greater one: the first of the two was returned.
C17_Witness ==
    /\ selector.pc = "returned"
    /\ selector.heading = 0
    /\ Len(selector.data) = 3
    /\ selector.data[1].id = 2
    /\ selector.data[2].id = 10
    /\ selector.data[3].id = 9
    /\ selector.out # Null
    /\ selector.out.id = 10

\* C18. Compass-angle check: a record that reports a compass angle in
\* [0, 360), 0 included, and passes the other checks is scored, so an answer
\* that holds such a record never yields none.
C18_AngleZeroAccepted ==
    selector.pc = "returned"
    => \A c \in Range(selector.data) :
          ( /\ ~c.is_pano
            /\ c.thumb_2048_url # ""
            /\ c.geometry # <<>> => planarDistanceSquared(c, selector.coord) <= 4
            /\ c.computed_compass_angle \in 0..359
            /\ HeadingDifference(c.computed_compass_angle, selector.heading) <= 45 )
          => selector.out # Null

\* ------------------------------------------------------------- decoder
\* The string ends inside a group (its last char has the continuation bit),
\* or holds an odd number of groups (a latitude delta without longitude).
EndsMidGroup(str) == Len(str) > 0 /\ str[Len(str)] - 63 >= 32

GroupCount(str) == Cardinality({ k \in DOMAIN str : str[k] - 63 < 32 })

Truncated(str) == EndsMidGroup(str) \/ GroupCount(str) % 2 = 1

\* C19. Decoder truncation: decode of a truncated string fails; it never
\* returns a coordinate sequence.
C19_TruncationFails ==
    ~(decoder.pc = "returned" /\ Truncated(decoder.str))

\* The points in the form decode returns them for a precision.
Scaled(points, precision) ==
    [k \in DOMAIN points |-> << Quotient(points[k][1], Pow(10, precision)),
                                Quotient(points[k][2], Pow(10, precision)) >>]

\* C20. Decoder round trip: decoding the canonical encoding of a sequence of
\* integer-scaled points returns that sequence, in order, each value over
\* 10^precision; the empty string yields the empty sequence.
C20_RoundTrip ==
    decoder.pc = "returned"
    => /\ \A points \in PointSeqs :
            decoder.str = Encodings[points]
            => decoder.coordinates = Scaled(points, decoder.precision)
       /\ decoder.str = <<>> => decoder.coordinates = <<>>

\* The encoding of two points with negative values and values of two groups
\* (deltas 1, -17, -18, 18) was decoded at precision 5.
C20_Witness ==
    /\ decoder.pc = "returned"
    /\ decoder.precision = 5
    /\ decoder.str = Encodings[<< <<1, -17>>, <<-17, 1>> >>]
    /\ Len(decoder.coordinates) = 2

\* The stepwise sampler returns what generateEvenlySpacedPoints computes.
SamplerAgrees ==
    sampler.pc = "returned"
    => sampler.result = generateEvenlySpacedPoints(sampler.routeCoords,
                                                   sampler.targetSpacingMeters)

\* ---------------------------------------------------------- form inputs
\* The newest run: the last invocation of handleFormSubmit that has begun
\* (0 before the first).
Newest == IF \E r \in Runs : pc[r] # "idle"
          THEN CHOOSE r \in Runs : pc[r] # "idle" /\ \A q \in Runs : pc[q] # "idle" => q <= r
          ELSE 0

\* C21: every input classified as coordinates (isCoordinates) is converted
\* without error to <<lon, lat>> with the latitude in [-90, 90] and the
\* longitude in [-180, 180]: no run ends with the alert of a failed
\* conversion, no run awaits the geocoder for such an input, and the origin a
\* run goes on with is in these ranges.
C21_CoordinateNormalization ==
    \A r \in Runs :
        /\ alertMsg[r] # "Invalid coordinates"
        /\ pc[r] = "awaitGeocodeOrigin" => ~isCoordinates(formData[r][1])
        /\ pc[r] = "awaitGeocodeDestination" => ~isCoordinates(formData[r][2])
        /\ pc[r] = "destination" /\ isCoordinates(formData[r][1]) =>
              LET parsed == parseCoordinateInput(formData[r][1]).value
              IN  /\ parsed[1] >= -180 /\ parsed[1] <= 180
                  /\ parsed[2] >= -90 /\ parsed[2] <= 90

\* A numeric pair that is in the valid ranges in neither order.
OutOfRangePair(input) ==
    /\ Len(input) = 2
    /\ input[1] # NaN /\ input[2] # NaN
    /\ ~(input[1] >= -90 /\ input[1] <= 90 /\ input[2] >= -180 /\ input[2] <= 180)
    /\ ~(input[2] >= -90 /\ input[2] <= 90 /\ input[1] >= -180 /\ input[1] <= 180)

\* C22: a run whose origin or destination is a numeric pair outside the valid
\* ranges issues no request: it never awaits the geocoder.
C22_InputErrors ==
    \A r \in Runs :
        pc[r] \in {"awaitGeocodeOrigin", "awaitGeocodeDestination"} =>
            ~OutOfRangePair(formData[r][1]) /\ ~OutOfRangePair(formData[r][2])

\* --------------------------------------------------- runs that overlap
\* C27. The exposed snapshot belongs to the current run: once a newer run has
\* been submitted, no step of an earlier run changes the exposed images, the
\* exposed coordinates or the loading state.
C27_SnapshotOfNewestRun ==
    [][\A r \in Runs :
          (r < Newest /\ pc'[r] # pc[r])
          => UNCHANGED <<images, coordinates, isLoading>>]_vars

\* C29. Selected images carry coordinates: every result of getMapillaryImage
\* other than null has the geometry of its record, so a record without
\* geometry is never selected.
C29_SelectedHasGeometry ==
    (selector.pc = "returned" /\ selector.out # Null) => selector.out.geometry # <<>>

\* ----------------------------------------------- sampler: placement, end
\* The summed lengths of the segments before segment seg (counted from 1).
LengthBefore(f, seg) == SumSeq(SubSeq(f.segmentLengths, 1, seg - 1))

\* C26. Sampler placement: a turn of the loop that places a waypoint projects
\* it from the start of the current segment, with that segment's bearing, at
\* the target distance minus the summed lengths of the earlier segments; this
\* offset is greater than 0 and at most the segment's length, and the target
\* lies beyond the end of every earlier segment (a target on a segment
\* boundary is placed at the end of the earlier segment).
C26_SamplerPlacement ==
    [][(sampler.pc = "loop" /\ Len(sampler'.result) > Len(sampler.result))
        => LET seg     == sampler.currentSegmentIndex + 1
               target  == sampler.nextPointDistance
               offset  == target - LengthBefore(sampler, seg)
               start   == sampler.routeCoords[seg]
               bearing == calculateInitialCompassBearing(start, sampler.routeCoords[seg + 1])
               placed  == sampler'.result[Len(sampler'.result)]
           IN  /\ placed.bearing = bearing
               /\ placed.coord = calculateDestinationPoint(start, bearing, offset)
               /\ offset > 0
               /\ offset <= sampler.segmentLengths[seg]
               /\ \A j \in 1..(seg - 1) : LengthBefore(sampler, j + 1) < target]_vars

\* A returned call on a route that runs 2 m north and then 2 m east, sampled
\* every 2 m: the target 2 falls on the boundary, and its waypoint was placed
\* at the end of the first segment with the first segment's bearing.
C26_Witness ==
    /\ sampler.pc = "returned"
    /\ sampler.routeCoords = << <<0, 0>>, <<2, 0>>, <<2, 2>> >>
    /\ sampler.targetSpacingMeters = 2
    /\ Len(sampler.result) = 2
    /\ sampler.result[2] = [coord |-> <<2, 0>>, bearing |-> 0]

\* C30. Sampler termination for any spacing: every call returns, and so no
\* turn of the loop leaves the variables the loop goes by (target distance,
\* accumulated distance, segment index, distance into the segment) as they
\* were, since the next turn would then repeat it without end.
C30_SamplerTerminates ==
    /\ <>(sampler.pc = "returned")
    /\ [][(sampler.pc = "loop" /\ sampler'.pc = "loop")
            => <<sampler'.nextPointDistance, sampler'.accumulatedDistance,
                 sampler'.currentSegmentIndex, sampler'.distanceIntoSegment>>
               # <<sampler.nextPointDistance, sampler.accumulatedDistance,
                   sampler.currentSegmentIndex, sampler.distanceIntoSegment>>]_vars

\* ------------------------------------------------------------ slideshow
\* The component shows the message only for an empty list, with the loading
\* finished and MINIMUM_WAIT_TIME passed since the mount.
MessageOnlyWhenDue ==
    (slideshow.pc = "mounted" /\ ~EffectsPending(slideshow)
     /\ slideshow.showNoImagesMessage /\ slideshow.imagesLength = 0)
    => ~slideshow.isLoading /\ slideshow.graceElapsed

\* C23. 'No images found': whenever the App shows the slideshow, between two
\* tasks, with props for which the component displays the message once
\* MINIMUM_WAIT_TIME has passed since its mount, the run that opened the
\* slideshow (the newest) has ended: the message is never displayed while
\* that run is still fetching.
C23_NoImagesOnlyAfterRun ==
    (active = 0 /\ showSlideshow /\ images = <<>>
     /\ NoImagesMessage(Len(images), isLoading, TRUE, FALSE))
    => pc[Newest] \in Terminal

\* C24. Play/pause: after the user paused playback while images are present,
\* and until the user presses play again, isPlaying is false (so that no
\* interval advances currentIndex).
C24_PauseHolds ==
    (slideshow.pc = "mounted" /\ slideshow.pausedByUser /\ slideshow.imagesLength > 0)
    => ~slideshow.isPlaying

\* C28. Slideshow index validity: once the effects of a render have run,
\* currentIndex is 0 while the list is empty and an index of the list
\* otherwise.
C28_IndexValid ==
    (slideshow.pc = "mounted" /\ ~EffectsPending(slideshow))
    => IF slideshow.imagesLength = 0
       THEN slideshow.currentIndex = 0
       ELSE slideshow.currentIndex \in 0..(slideshow.imagesLength - 1)

\* -------------------------------------------------------------- geodesy
\* C25. Geodesy round trip: the bearing from a point to the destination
\* projected from it at bearing b and distance d > 0 is b, and the distance
\* between the two is d.
C25_GeodesyRoundTrip ==
    geodesy.pc = "measured"
    => /\ geodesy.initialBearing = geodesy.bearing
       /\ geodesy.measured = geodesy.arc

====
